---- MODULE Spec2Model ----
(***************************************************************************)
(* SynthFlow backend: the refresh-token lifecycle of the auth service      *)
(* (login, refresh, logout over the users and refresh_tokens tables) and   *)
(* the owner-scoped workflow CRUD service.                                 *)
(*                                                                         *)
(* Time is counted in ticks, TicksPerSec ticks to the second: the stored   *)
(* expiry of a refresh token keeps its sub-second part (datetime), the     *)
(* expiry inside a JWT is truncated to whole seconds by the JWT encoder.   *)
(***************************************************************************)
EXTENDS Integers, FiniteSets, Sequences, TLC

\* ------------------------------------------------------------- bounds
TicksPerSec == 2
\* ACCESS_TOKEN_EXPIRE_MINUTES and REFRESH_TOKEN_EXPIRE_DAYS, scaled to seconds
\* (the refresh token outlives the access token)
AccessTtl == 1
RefreshTtl == AccessTtl + 1
\* logins start no later than this tick of the run
MaxLoginTick == 1
\* rows in refresh_tokens
MaxTokens == 2
\* rows in workflows ever created, and the highest version an update starts from
MaxWorkflows == 1
MaxVersion == 3

\* the run ends a second after the last stored expiry
MaxTime == MaxLoginTick + 1 + (RefreshTtl + 1) * TicksPerSec

\* ------------------------------------------------------------- values
GOOGLE_CLIENT_ID == "client"
Subjects == {"g-1", "g-2"}
Emails == {"a@x.com", "b@x.com"}
Absent == "<absent>"
None == "<none>"
\* what a tokeninfo response says of the profile: name and picture
Profiles ==
    {[name |-> "Ann", picture |-> Absent], [name |-> "Bea", picture |-> "pic"],
     [name |-> Absent, picture |-> Absent]}

NoUser == 0
NoToken == [sub |-> NoUser, email |-> None, typ |-> "none", exp |-> 0, iat |-> 0, sig |-> FALSE]
\* a string that is no JWT signed with JWT_SECRET_KEY
GarbageToken == [sub |-> NoUser, email |-> None, typ |-> "garbage", exp |-> 0, iat |-> 0, sig |-> FALSE]

\* what a tokeninfo response carries as email_verified: the JSON booleans, the
\* JSON strings "true" and "false" (the form the tokeninfo endpoint answers
\* in), or no such key
VerifiedFlags == {"true", "false", "\"true\"", "\"false\"", Absent}
\* Python truth of payload.get("email_verified", False): a non-empty string is true
Truthy(v) == v \notin {"false", Absent}

\* the tokeninfo responses: the verified ones for this application in every
\* profile, the others once
GoodCredentials ==
    {[status |-> 200, aud |-> GOOGLE_CLIENT_ID, email_verified |-> "true",
      sub |-> s, email |-> e, name |-> p.name, picture |-> p.picture] :
        s \in Subjects, e \in Emails, p \in Profiles}
BadCredentials ==
    [status : {200, 400}, aud : {GOOGLE_CLIENT_ID, "other-app"}, email_verified : VerifiedFlags,
     sub : {"g-1"}, email : {"a@x.com"}, name : {Absent}, picture : {Absent}]
    \ GoodCredentials
Credentials == GoodCredentials \cup BadCredentials
NoCredential == [status |-> 0, aud |-> None, email_verified |-> Absent, sub |-> None,
                 email |-> None, name |-> Absent, picture |-> Absent]

VARIABLES
    clock,      \* datetime.now(timezone.utc), in ticks
    users,      \* table users
    tokens,     \* table refresh_tokens
    loggedOut,  \* history: the stored token strings a logout has completed for
    workflows,  \* table workflows
    wfCreated,  \* workflow ids handed out so far
    wfUpdates,  \* history: the successful updates of each workflow id
    last,       \* the request answered at this instant and its response
    held,       \* the tokens a client was handed and still holds
    procs,      \* the requests in flight, each with its position and locals
    isolation   \* the transaction isolation level the engine runs at

wfVars == <<workflows, wfCreated, wfUpdates>>
auxVars == <<held, procs, isolation>>
vars == <<clock, users, tokens, loggedOut, workflows, wfCreated, wfUpdates, last,
          held, procs, isolation>>

\* ------------------------------------------------------------- token codec
\* datetime -> int seconds, as the JWT encoder and its expiry check do
SecOf(t) == t \div TicksPerSec

create_access_token(user_id, email, tExp, tIat) ==
    [sub |-> user_id, email |-> email, typ |-> "access",
     exp |-> SecOf(tExp) + AccessTtl, iat |-> SecOf(tIat), sig |-> TRUE]

create_refresh_token(user_id, tExp, tIat) ==
    [sub |-> user_id, email |-> None, typ |-> "refresh",
     exp |-> SecOf(tExp) + RefreshTtl, iat |-> SecOf(tIat), sig |-> TRUE]

\* jwt.decode: the signature verifies and exp is not earlier than now (in seconds)
\* a decoder that takes a token for expired from the second of its exp on
decode_token_strict(token, now) == token.sig /\ token.exp > SecOf(now)
decode_token(token, now) == token.sig /\ ~(token.exp < SecOf(now))

verify_access_token(token, now) ==
    decode_token(token, now) /\ token.typ = "access" /\ token.sub # NoUser

verify_refresh_token(token, now) ==
    decode_token(token, now) /\ token.typ = "refresh" /\ token.sub # NoUser

\* ------------------------------------------------------------- auth service
\* verify_google_token: "ok", or the message of the BadRequestException raised
verify_google_token(credential) ==
    IF credential.status # 200 THEN "Invalid Google credential"
    ELSE IF credential.aud # GOOGLE_CLIENT_ID
         THEN "Google token was not issued for this application"
    ELSE IF ~Truthy(credential.email_verified) THEN "Google email not verified"
    ELSE "ok"

NoUserRow == [id |-> NoUser, email |-> None, name |-> "", avatar_url |-> None, oauth_id |-> None]

\* the row a first login inserts; id stands for generate_uuid()
NewUser(us, google_payload) ==
    [id |-> Cardinality(us) + 1,
     email |-> google_payload.email,
     name |-> IF google_payload.name = Absent THEN "" ELSE google_payload.name,
     avatar_url |-> IF google_payload.picture = Absent THEN None ELSE google_payload.picture,
     oauth_id |-> google_payload.sub]

\* the row of an existing user after a repeat login
UserKept(user, google_payload) == user
UpdatedUser(user, google_payload) ==
    [user EXCEPT
        !.name = IF google_payload.name = Absent THEN user.name ELSE google_payload.name,
        !.avatar_url = IF google_payload.picture = Absent THEN user.avatar_url
                       ELSE google_payload.picture]

\* get_or_create_user: ok is FALSE when scalar_one_or_none finds two rows or the
\* flush raises IntegrityError (users.email is unique)
get_or_create_user(us, google_payload) ==
    LET found == {u \in us : u.oauth_id = google_payload.sub} IN
    IF Cardinality(found) > 1
    THEN [ok |-> FALSE, users |-> us, user |-> NoUserRow, is_new |-> FALSE]
    ELSE IF found # {}
    THEN LET user == CHOOSE u \in found : TRUE
             upd == UpdatedUser(user, google_payload)
         IN [ok |-> TRUE, users |-> (us \ {user}) \cup {upd}, user |-> upd, is_new |-> FALSE]
    ELSE LET new == NewUser(us, google_payload) IN
         IF \E u \in us : u.email = new.email
         THEN [ok |-> FALSE, users |-> us, user |-> NoUserRow, is_new |-> TRUE]
         ELSE [ok |-> TRUE, users |-> us \cup {new}, user |-> new, is_new |-> TRUE]

\* a store that takes a duplicate token string for stored
store_refresh_token_lenient(toks, user_id, token, now) ==
    [ok |-> TRUE,
     tokens |-> IF \E r \in toks : r.token = token THEN toks
                ELSE toks \cup {[user_id |-> user_id, token |-> token, is_revoked |-> FALSE,
                                 expires_at |-> now + RefreshTtl * TicksPerSec]}]

\* a store whose expiry is one tick short of now + the refresh TTL
store_refresh_token_short(toks, user_id, token, now) ==
    IF \E r \in toks : r.token = token
    THEN [ok |-> FALSE, tokens |-> toks]
    ELSE [ok |-> TRUE,
          tokens |-> toks \cup {[user_id |-> user_id, token |-> token, is_revoked |-> FALSE,
                                 expires_at |-> now + RefreshTtl * TicksPerSec - 1]}]

\* store_refresh_token: ok is FALSE when the flush raises IntegrityError
\* (refresh_tokens.token is unique)
store_refresh_token(toks, user_id, token, now) ==
    IF \E r \in toks : r.token = token
    THEN [ok |-> FALSE, tokens |-> toks]
    ELSE [ok |-> TRUE,
          tokens |-> toks \cup {[user_id |-> user_id, token |-> token, is_revoked |-> FALSE,
                                 expires_at |-> now + RefreshTtl * TicksPerSec]}]

\* the request's unit of work: committed when the handler returns, rolled back
\* when it raises
SessionOutcome(raised, before, after) == IF raised THEN before ELSE after

Response(op, status, msg) ==
    [op |-> op, status |-> status, msg |-> msg, user |-> NoUser, access |-> NoToken,
     refresh |-> NoToken, arg |-> NoToken, cred |-> NoCredential]

\* what generic_exception_handler answers for an exception that is no SynthFlowException
Unexpected(op) == Response(op, 500, "An unexpected error occurred")

\* the five clock readings of one login, in order: access exp, access iat,
\* refresh exp, refresh iat, stored expiry; the clock moves on by one tick after
\* the first k of them (k = NumReads: not at all)
NumReads == 5
Reads(now, k) == [i \in 1..NumReads |-> IF i > k THEN now + 1 ELSE now]

\* authenticate_with_google: the response and the tables it leaves
authenticate_with_google(us, toks, credential, rd) ==
    LET v == verify_google_token(credential) IN
    IF v # "ok"
    THEN [resp |-> [Response("login", 400, v) EXCEPT !.cred = credential],
          users |-> us, tokens |-> toks]
    ELSE
    LET g == get_or_create_user(us, credential) IN
    IF ~g.ok
    THEN [resp |-> [Unexpected("login") EXCEPT !.cred = credential],
          users |-> SessionOutcome(TRUE, us, g.users), tokens |-> toks]
    ELSE
    LET access_token == create_access_token(g.user.id, g.user.email, rd[1], rd[2])
        refresh_token == create_refresh_token(g.user.id, rd[3], rd[4])
        st == store_refresh_token(toks, g.user.id, refresh_token, rd[5])
    IN
    IF ~st.ok
    THEN [resp |-> [Unexpected("login") EXCEPT !.cred = credential],
          users |-> SessionOutcome(TRUE, us, g.users),
          tokens |-> SessionOutcome(TRUE, toks, st.tokens)]
    ELSE [resp |-> [Response("login", 200, "ok") EXCEPT
                        !.user = g.user.id, !.access = access_token,
                        !.refresh = refresh_token, !.cred = credential],
          users |-> SessionOutcome(FALSE, us, g.users),
          tokens |-> SessionOutcome(FALSE, toks, st.tokens)]

\* the rows the lookup of refresh selects: that token string, not revoked
StoredAnyFlag(toks, refresh_token_str) == {r \in toks : r.token = refresh_token_str}
StoredUnrevoked(toks, refresh_token_str) ==
    {r \in toks : r.token = refresh_token_str /\ ~r.is_revoked}

\* refresh_tokens after a successful refresh: nothing is added, flushed or rotated
RotatedOnRefresh(toks, refresh_token_str) ==
    {[r EXCEPT !.is_revoked = @ \/ r.token = refresh_token_str] : r \in toks}
TokensAfterRefresh(toks, refresh_token_str) == toks

\* a refresh that looks at the stored expiry before the revoked flag
refresh_access_token_expiry_first(us, toks, refresh_token_str, now) ==
    LET R(status, msg) ==
            [resp |-> [Response("refresh", status, msg) EXCEPT !.arg = refresh_token_str],
             users |-> us, tokens |-> toks]
        stored == StoredAnyFlag(toks, refresh_token_str)
        found == {u \in us : u.id = refresh_token_str.sub}
    IN
    IF ~verify_refresh_token(refresh_token_str, now)
    THEN R(400, "Invalid or expired refresh token")
    ELSE IF stored # {} /\ \A r \in stored : r.expires_at < now
    THEN R(400, "Refresh token has expired")
    ELSE IF StoredUnrevoked(toks, refresh_token_str) = {}
    THEN R(400, "Refresh token not found or has been revoked")
    ELSE IF found = {}
    THEN R(400, "User not found")
    ELSE LET user == CHOOSE u \in found : TRUE IN
         [resp |-> [Response("refresh", 200, "ok") EXCEPT
                        !.arg = refresh_token_str, !.user = user.id,
                        !.access = create_access_token(user.id, user.email, now, now)],
          users |-> us, tokens |-> toks]

\* refresh_access_token: the response and the tables it leaves
refresh_access_token(us, toks, refresh_token_str, now) ==
    LET R(status, msg) ==
            [resp |-> [Response("refresh", status, msg) EXCEPT !.arg = refresh_token_str],
             users |-> us, tokens |-> toks]
        stored == StoredUnrevoked(toks, refresh_token_str)
    IN
    IF ~verify_refresh_token(refresh_token_str, now)
    THEN R(400, "Invalid or expired refresh token")
    ELSE IF Cardinality(stored) > 1
    THEN [resp |-> [Unexpected("refresh") EXCEPT !.arg = refresh_token_str],
          users |-> us, tokens |-> toks]
    ELSE IF stored = {}
    THEN R(400, "Refresh token not found or has been revoked")
    ELSE IF (CHOOSE r \in stored : TRUE).expires_at < now
    THEN R(400, "Refresh token has expired")
    ELSE LET found == {u \in us : u.id = refresh_token_str.sub} IN
    IF found = {}
    THEN R(400, "User not found")
    ELSE LET user == CHOOSE u \in found : TRUE IN
         [resp |-> [Response("refresh", 200, "ok") EXCEPT
                        !.arg = refresh_token_str, !.user = user.id,
                        !.access = create_access_token(user.id, user.email, now, now)],
          users |-> us, tokens |-> TokensAfterRefresh(toks, refresh_token_str)]

\* stored_token.is_revoked = True, on the rows found
RowsUntouched(found) == found
RowsToggled(found) == {[r EXCEPT !.is_revoked = ~@] : r \in found}
RevokedRows(found) == {[r EXCEPT !.is_revoked = TRUE] : r \in found}

\* a logout that treats an unknown token as an error
revoke_refresh_token_strict(toks, refresh_token_str) ==
    LET found == {r \in toks : r.token = refresh_token_str} IN
    IF found = {}
    THEN [resp |-> [Response("logout", 400, "Refresh token not found")
                        EXCEPT !.arg = refresh_token_str],
          tokens |-> toks]
    ELSE [resp |-> [Response("logout", 204, "ok") EXCEPT !.arg = refresh_token_str],
          tokens |-> (toks \ found) \cup RevokedRows(found)]

\* revoke_refresh_token: the response of the logout and the table it leaves
revoke_refresh_token(toks, refresh_token_str) ==
    LET found == {r \in toks : r.token = refresh_token_str} IN
    IF Cardinality(found) > 1
    THEN [resp |-> [Unexpected("logout") EXCEPT !.arg = refresh_token_str], tokens |-> toks]
    ELSE [resp |-> [Response("logout", 204, "ok") EXCEPT !.arg = refresh_token_str],
          tokens |-> (toks \ found) \cup RevokedRows(found)]

\* ------------------------------------------------------------- dependencies
\* a dependency that takes any token for an access token
get_current_user_unchecked(us, token, now) ==
    [status |-> 200, msg |-> "ok",
     user |-> IF \E u \in us : u.id = token.sub
              THEN CHOOSE u \in us : u.id = token.sub ELSE NoUserRow]

\* a dependency that wants an unrevoked refresh token stored for the user
get_current_user_live_session(us, token, now) ==
    LET found == {u \in us : u.id = token.sub} IN
    IF ~verify_access_token(token, now)
    THEN [status |-> 401, msg |-> "Invalid or expired access token", user |-> NoUserRow]
    ELSE IF found = {} \/ ~\E r \in tokens : r.user_id = token.sub /\ ~r.is_revoked
    THEN [status |-> 401, msg |-> "User not found", user |-> NoUserRow]
    ELSE [status |-> 200, msg |-> "ok", user |-> CHOOSE u \in found : TRUE]

\* get_current_user: the user the Bearer token names, or the 401 raised. A sub
\* that is present but empty ("Token missing user identifier") is a token no
\* create_access_token call issues.
get_current_user(us, token, now) ==
    IF ~verify_access_token(token, now)
    THEN [status |-> 401, msg |-> "Invalid or expired access token", user |-> NoUserRow]
    ELSE LET found == {u \in us : u.id = token.sub} IN
         IF found = {}
         THEN [status |-> 401, msg |-> "User not found", user |-> NoUserRow]
         ELSE [status |-> 200, msg |-> "ok", user |-> CHOOSE u \in found : TRUE]

\* ------------------------------------------------------------- requests
\* the requests served one at a time: none in flight, no token tracked
Procs == {1, 2}
Idle == [pc |-> "idle"]
NoneInFlight ==
    /\ held = {}
    /\ procs = [p \in Procs |-> Idle]
    /\ isolation = "read_committed"

Init ==
    /\ clock = 0
    /\ users = {}
    /\ tokens = {}
    /\ loggedOut = {}
    /\ workflows = {}
    /\ wfCreated = 0
    /\ wfUpdates = [i \in 1..MaxWorkflows |-> 0]
    /\ last = Response("none", 0, "")
    /\ NoneInFlight

Tick ==
    /\ clock < MaxTime
    /\ clock' = clock + 1
    /\ last' = Response("none", 0, "")
    /\ UNCHANGED <<users, tokens, loggedOut, wfVars>>
    /\ UNCHANGED auxVars

\* POST /api/auth/google
Login ==
    /\ clock <= MaxLoginTick
    /\ Cardinality(tokens) < MaxTokens
    /\ \E credential \in Credentials, k \in 0..NumReads :
         LET rd == Reads(clock, k)
             out == authenticate_with_google(users, tokens, credential, rd)
         IN /\ users' = out.users
            /\ tokens' = out.tokens
            /\ last' = out.resp
            /\ clock' = IF verify_google_token(credential) = "ok" THEN rd[NumReads] ELSE clock
    /\ UNCHANGED <<loggedOut, wfVars>>
    /\ UNCHANGED auxVars

\* the token strings a client can present: those stored, the access token of
\* the last response, and a string that is no token
Presentable ==
    {r.token : r \in tokens} \cup {GarbageToken}
        \cup (IF last.access # NoToken THEN {last.access} ELSE {})

\* POST /api/auth/refresh
Refresh ==
    /\ \E t \in Presentable :
         LET out == refresh_access_token(users, tokens, t, clock) IN
         /\ users' = out.users
         /\ tokens' = out.tokens
         /\ last' = out.resp
    /\ UNCHANGED <<clock, loggedOut, wfVars>>
    /\ UNCHANGED auxVars

\* POST /api/auth/logout
Logout ==
    /\ \E t \in Presentable :
         LET out == revoke_refresh_token(tokens, t) IN
         /\ tokens' = out.tokens
         /\ last' = out.resp
         /\ loggedOut' = IF out.resp.status = 204 /\ \E r \in tokens : r.token = t
                         THEN loggedOut \cup {t} ELSE loggedOut
    /\ UNCHANGED <<clock, users, wfVars>>
    /\ UNCHANGED auxVars

Next == Tick \/ Login \/ Refresh \/ Logout

Spec == Init /\ [][Next]_vars

\* ============================================================= properties
RevokedMsg == "Refresh token not found or has been revoked"
StoredExpiryPassed(r) == r.expires_at < clock
RefreshNow(t) == refresh_access_token(users, tokens, t, clock).resp

\* C1 as stated: at any time a refresh of a stored token string succeeds if and
\* only if its stored record is unrevoked and its stored expiry has not passed.
C1_RefreshIffStoredLive ==
    \A r \in tokens :
        (RefreshNow(r.token).status = 200) <=> (~r.is_revoked /\ ~StoredExpiryPassed(r))

\* C1 as amended: at any time a refresh of a stored token string returns a new
\* access token if and only if the string still decodes as an unexpired refresh
\* token, its stored record is unrevoked, its stored expiry has not passed and
\* its user exists; in every other state the call fails and returns no token.
C1_RefreshIffDecodesAndStoredLive ==
    /\ \A r \in tokens :
         LET resp == RefreshNow(r.token) IN
         /\ (resp.status = 200) <=>
                /\ verify_refresh_token(r.token, clock)
                /\ ~r.is_revoked
                /\ ~StoredExpiryPassed(r)
                /\ \E u \in users : u.id = r.token.sub
         /\ resp.status = 200 => verify_access_token(resp.access, clock)
         /\ resp.status # 200 => resp.status = 400 /\ resp.access = NoToken
    /\ last.op = "refresh" => last = RefreshNow(last.arg)

\* a refresh was refused although the stored record is unrevoked and unexpired:
\* the token's own expiry, in whole seconds, had passed first
C1_Witness ==
    /\ last.op = "refresh"
    /\ last.status = 400
    /\ \E r \in tokens : r.token = last.arg /\ ~r.is_revoked /\ ~StoredExpiryPassed(r)

\* C2: once a logout has completed for a stored token string, every later
\* refresh of that string fails with the not-found-or-revoked error and returns
\* no access token, for as long as the string still decodes as a refresh token.
C2_RevokedNeverRefreshes ==
    /\ \A t \in loggedOut :
         verify_refresh_token(t, clock) =>
             RefreshNow(t).msg = RevokedMsg /\ RefreshNow(t).access = NoToken
    /\ (last.op = "refresh" /\ last.arg \in loggedOut /\ verify_refresh_token(last.arg, clock))
          => last.status = 400 /\ last.msg = RevokedMsg /\ last.access = NoToken

C2_Witness ==
    /\ last.op = "refresh"
    /\ last.arg \in loggedOut
    /\ last.msg = RevokedMsg

\* C3: a refresh-token record that is revoked stays stored and revoked under
\* every login, refresh and logout (and as time passes).
C3_RevokedIsTerminal ==
    [][\A r \in tokens : r.is_revoked =>
          /\ \E r2 \in tokens' : r2.token = r.token
          /\ \A r2 \in tokens' : r2.token = r.token => r2.is_revoked]_vars

\* a login was served while a revoked record was stored
C3_Witness ==
    /\ last.op = "login"
    /\ last.status = 200
    /\ \E r \in tokens : r.is_revoked /\ r.token \in loggedOut

\* C4: a logout never fails; for a token string with no stored record it
\* changes neither table, and a second logout with the same string succeeds too
\* and leaves the tables as the first left them.
C4_LogoutIdempotent ==
    [][last'.op = "logout" =>
          /\ last'.status = 204
          /\ users' = users
          /\ (~\E r \in tokens : r.token = last'.arg) => tokens' = tokens
          /\ LET again == revoke_refresh_token(tokens', last'.arg) IN
             again.resp.status = 204 /\ again.tokens = tokens']_vars

\* a logout with an unknown string was answered 204 while records are stored
C4_Witness ==
    /\ last.op = "logout"
    /\ last.status = 204
    /\ tokens # {}
    /\ ~\E r \in tokens : r.token = last.arg

\* C5: a refresh, successful or not, changes neither table and returns no
\* refresh token; on success it returns an access token and the same refresh
\* token string refreshes again.
C5_RefreshDoesNotRotate ==
    [][last'.op = "refresh" =>
          /\ users' = users
          /\ tokens' = tokens
          /\ last'.refresh = NoToken
          /\ last'.status = 200 =>
                /\ last'.access.typ = "access"
                /\ refresh_access_token(users', tokens', last'.arg, clock').resp.status = 200
          /\ last'.status # 200 => last'.access = NoToken]_vars

C5_Witness ==
    /\ last.op = "refresh"
    /\ last.status = 200
    /\ last.access.typ = "access"
    /\ \E r \in tokens : r.token = last.arg /\ ~r.is_revoked

\* C6: a login that returns tokens has stored, in that request, a record with
\* the returned refresh token, the returned user's id, revoked = false and
\* expiry = time of storing + refresh TTL; a login that fails returns no tokens
\* and stores none.
C6_LoginPersistsBeforeReturning ==
    [][last'.op = "login" =>
          /\ last'.status = 200 =>
                /\ last'.access.typ = "access" /\ last'.refresh.typ = "refresh"
                /\ ~\E r \in tokens : r.token = last'.refresh
                /\ \E r \in tokens' :
                      /\ r.token = last'.refresh
                      /\ r.user_id = last'.user
                      /\ ~r.is_revoked
                      /\ r.expires_at = clock' + RefreshTtl * TicksPerSec
          /\ last'.status # 200 =>
                last'.access = NoToken /\ last'.refresh = NoToken /\ tokens' = tokens]_vars

C6_Witness ==
    /\ last.op = "login"
    /\ last.status = 200
    /\ \E r \in tokens :
          /\ r.token = last.refresh /\ r.user_id = last.user /\ ~r.is_revoked
          /\ r.expires_at = clock + RefreshTtl * TicksPerSec

\* C7: for a user who holds an unrevoked, unexpired stored refresh token, a
\* further login with a valid credential succeeds, at any time, and stores a
\* second unrevoked record of that user, both strings refreshing afterwards.
C7_SecondLoginSucceeds ==
    [][(/\ last'.op = "login"
        /\ verify_google_token(last'.cred) = "ok"
        /\ \E u \in users : /\ u.oauth_id = last'.cred.sub
                            /\ \E r \in tokens : /\ r.user_id = u.id
                                                 /\ ~r.is_revoked
                                                 /\ ~StoredExpiryPassed(r))
          => /\ last'.status = 200
             /\ \A r \in tokens : (r.user_id = last'.user /\ ~r.is_revoked /\ ~StoredExpiryPassed(r))
                   => /\ r.token # last'.refresh
                      /\ refresh_access_token(users', tokens', r.token, clock').resp.status = 200
             /\ refresh_access_token(users', tokens', last'.refresh, clock').resp.status = 200]_vars

\* C8: after successful logins there is one user record per external subject
\* id; a login of a known subject returns that user's id and overwrites name
\* and avatar with the values the provider claims carry (a claim that is absent
\* leaves the stored value), leaving id, email and subject as they were.
OneUserPerSubject(us) ==
    \A u, v \in us : (u.oauth_id = v.oauth_id \/ u.id = v.id) => u = v

C8_LoginIdempotentOnIdentity ==
    [][(last'.op = "login" /\ last'.status = 200) =>
          /\ OneUserPerSubject(users')
          /\ \E v \in users' : v.id = last'.user /\ v.oauth_id = last'.cred.sub
          /\ \A u \in users : u.oauth_id = last'.cred.sub =>
                /\ last'.user = u.id
                /\ \E v \in users' :
                      /\ v.id = u.id /\ v.email = u.email /\ v.oauth_id = u.oauth_id
                      /\ v.name = IF last'.cred.name = Absent THEN u.name ELSE last'.cred.name
                      /\ v.avatar_url = IF last'.cred.picture = Absent THEN u.avatar_url
                                        ELSE last'.cred.picture
          /\ \A u \in users : u.oauth_id # last'.cred.sub => u \in users']_vars

\* a repeat login renamed the user, set the avatar and kept the first email
C8_Witness ==
    /\ last.op = "login"
    /\ last.status = 200
    /\ \E u \in users :
          /\ u.id = last.user
          /\ u.name = "Bea" /\ last.cred.name = "Bea"
          /\ u.avatar_url = "pic" /\ last.cred.picture = "pic"
          /\ u.email # last.cred.email
          /\ \E r \in tokens : r.user_id = u.id /\ r.token # last.refresh


\* ------------------------------------------------------------- workflow service
\* a WorkflowUpdate: each field unset, or set to a value (Null: set to null).
\* graph_data and concurrency_policy are patched the way name is and are left out.
Unset == "<unset>"
Null == "<null>"
WfNames == {"X", "Y"}
WorkflowCreates == [name : WfNames, description : {Null}]
WorkflowUpdates ==
    [name : WfNames \cup {Unset, Null},
     description : {Unset, "d"},
     is_active : {Unset, "false"}]

NoWorkflow == [id |-> 0, owner_id |-> NoUser, name |-> "", description |-> Null,
               is_active |-> "true", version |-> 0]

NoPatch == [name |-> Unset, description |-> Unset, is_active |-> Unset]

WfResponse(op, status, msg, caller, wf, row) ==
    [op |-> op, status |-> status, msg |-> msg, caller |-> caller, wf |-> wf, row |-> row,
     data |-> NoPatch]

\* create_workflow: version is left to the column default
create_workflow(new_id, owner_id, data) ==
    [id |-> new_id, owner_id |-> owner_id, name |-> data.name,
     description |-> data.description, is_active |-> "true", version |-> 1]

\* a lookup that filters on the owner in the query
get_workflow_by_id_scoped(wfs, workflow_id, owner_id) ==
    LET found == {w \in wfs : w.id = workflow_id /\ w.owner_id = owner_id} IN
    IF found = {}
    THEN [status |-> 404, msg |-> "Workflow not found", row |-> NoWorkflow]
    ELSE [status |-> 200, msg |-> "ok", row |-> CHOOSE w \in found : TRUE]

\* get_workflow_by_id: the row, or the exception raised
get_workflow_by_id(wfs, workflow_id, owner_id) ==
    LET found == {w \in wfs : w.id = workflow_id} IN
    IF found = {}
    THEN [status |-> 404, msg |-> "Workflow not found", row |-> NoWorkflow]
    ELSE LET workflow == CHOOSE w \in found : TRUE IN
         IF workflow.owner_id # owner_id
         THEN [status |-> 403, msg |-> "You do not have access to this resource",
               row |-> NoWorkflow]
         ELSE [status |-> 200, msg |-> "ok", row |-> workflow]

\* the setattr loop over the fields the patch sets
Patched(workflow, data) ==
    [workflow EXCEPT
        !.name = IF data.name = Unset THEN @ ELSE data.name,
        !.description = IF data.description = Unset THEN @ ELSE data.description,
        !.is_active = IF data.is_active = Unset THEN @ ELSE data.is_active]

\* "Increment version on every save": the version an update of workflow by data writes
BumpedIfChanged(workflow, data) ==
    IF Patched(workflow, data) = workflow THEN workflow.version ELSE workflow.version + 1
BumpedVersion(workflow, data) == workflow.version + 1

\* update_workflow: the response and the table it leaves; a null in a
\* non-nullable column makes the flush raise
update_workflow(wfs, workflow_id, owner_id, data) ==
    LET g == get_workflow_by_id(wfs, workflow_id, owner_id)
        R(status, msg, row) ==
            [WfResponse("update", status, msg, owner_id, workflow_id, row) EXCEPT !.data = data]
    IN
    IF g.status # 200
    THEN [resp |-> R(g.status, g.msg, NoWorkflow), workflows |-> wfs]
    ELSE LET upd == [Patched(g.row, data) EXCEPT !.version = BumpedVersion(g.row, data)] IN
         IF upd.name = Null \/ upd.is_active = Null
         THEN [resp |-> R(500, "An unexpected error occurred", NoWorkflow),
               workflows |-> SessionOutcome(TRUE, wfs, (wfs \ {g.row}) \cup {upd})]
         ELSE [resp |-> R(200, "ok", upd),
               workflows |-> SessionOutcome(FALSE, wfs, (wfs \ {g.row}) \cup {upd})]

\* delete_workflow: the response and the table it leaves
delete_workflow(wfs, workflow_id, owner_id) ==
    LET g == get_workflow_by_id(wfs, workflow_id, owner_id) IN
    IF g.status # 200
    THEN [resp |-> WfResponse("delete", g.status, g.msg, owner_id, workflow_id, NoWorkflow),
          workflows |-> wfs]
    ELSE [resp |-> WfResponse("delete", 204, "ok", owner_id, workflow_id, NoWorkflow),
          workflows |-> wfs \ {g.row}]

\* ------------------------------------------------------------- workflow requests
\* the users table as two first logins leave it
TwoUsers ==
    {[id |-> 1, email |-> "a@x.com", name |-> "Ann", avatar_url |-> None, oauth_id |-> "g-1"],
     [id |-> 2, email |-> "b@x.com", name |-> "Bea", avatar_url |-> None, oauth_id |-> "g-2"]}

WfInit ==
    /\ clock = 0
    /\ users = TwoUsers
    /\ tokens = {}
    /\ loggedOut = {}
    /\ workflows = {}
    /\ wfCreated = 0
    /\ wfUpdates = [i \in 1..MaxWorkflows |-> 0]
    /\ last = WfResponse("none", 0, "", NoUser, 0, NoWorkflow)
    /\ NoneInFlight

Owners == {u.id : u \in users}
WorkflowIds == 1..MaxWorkflows

CreateWorkflow ==
    /\ wfCreated < MaxWorkflows
    /\ \E owner_id \in Owners, data \in WorkflowCreates :
         LET workflow == create_workflow(wfCreated + 1, owner_id, data) IN
         /\ workflows' = workflows \cup {workflow}
         /\ wfCreated' = wfCreated + 1
         /\ last' = WfResponse("create", 201, "ok", owner_id, workflow.id, workflow)
    /\ UNCHANGED <<clock, users, tokens, loggedOut, wfUpdates>>
    /\ UNCHANGED auxVars

GetWorkflow ==
    /\ \E owner_id \in Owners, workflow_id \in WorkflowIds :
         LET g == get_workflow_by_id(workflows, workflow_id, owner_id) IN
         last' = WfResponse("get", g.status, g.msg, owner_id, workflow_id, g.row)
    /\ UNCHANGED <<clock, users, tokens, loggedOut, workflows, wfCreated, wfUpdates>>
    /\ UNCHANGED auxVars

UpdateWorkflow ==
    /\ \E owner_id \in Owners, workflow_id \in WorkflowIds, data \in WorkflowUpdates :
         LET out == update_workflow(workflows, workflow_id, owner_id, data) IN
         /\ \A w \in workflows : w.id = workflow_id => w.version < MaxVersion
         /\ workflows' = out.workflows
         /\ last' = out.resp
         /\ wfUpdates' = IF out.resp.status = 200
                         THEN [wfUpdates EXCEPT ![workflow_id] = @ + 1] ELSE wfUpdates
    /\ UNCHANGED <<clock, users, tokens, loggedOut, wfCreated>>
    /\ UNCHANGED auxVars

DeleteWorkflow ==
    /\ \E owner_id \in Owners, workflow_id \in WorkflowIds :
         LET out == delete_workflow(workflows, workflow_id, owner_id) IN
         /\ workflows' = out.workflows
         /\ last' = out.resp
    /\ UNCHANGED <<clock, users, tokens, loggedOut, wfCreated, wfUpdates>>
    /\ UNCHANGED auxVars

WfNext == CreateWorkflow \/ GetWorkflow \/ UpdateWorkflow \/ DeleteWorkflow

WfSpec == WfInit /\ [][WfNext]_vars

\* C9: a workflow is created with version 1; every successful update returns
\* and stores the version before the call + 1, whatever the patch; so a stored
\* version is 1 + the number of successful updates (two updates: version 3).
C9_VersionIncrementsByOne ==
    [][/\ last'.op = "create" => last'.row.version = 1 /\ last'.row \in workflows'
       /\ (last'.op = "update" /\ last'.status = 200) =>
             /\ last'.row \in workflows'
             /\ \E w \in workflows : w.id = last'.wf /\ last'.row.version = w.version + 1
       /\ \A w \in workflows' : w.version = 1 + wfUpdates'[w.id]]_vars

\* the second update of a workflow, an empty patch, returned version 3
C9_Witness ==
    /\ last.op = "update"
    /\ last.status = 200
    /\ last.data = NoPatch
    /\ last.row.version = 3
    /\ wfUpdates[last.wf] = 2

\* C10: get, update and delete fail with 404 when no workflow has the id and
\* with 403, never 404, when the workflow exists and the caller is not its
\* owner; in both cases the workflows table is left as it was.
C10_NotFoundOrForbidden ==
    [][last'.op \in {"get", "update", "delete"} =>
          /\ (~\E w \in workflows : w.id = last'.wf) =>
                last'.status = 404 /\ workflows' = workflows
          /\ \A w \in workflows : (w.id = last'.wf /\ w.owner_id # last'.caller) =>
                last'.status = 403 /\ workflows' = workflows]_vars

\* an update by a user who is not the owner was answered 403
C10_Witness ==
    /\ last.op = "update"
    /\ last.status = 403
    /\ \E w \in workflows : w.id = last.wf /\ w.owner_id # last.caller /\ w.version = 1

\* ------------------------------------------------------------- workflow endpoints
\* the owner id every workflow endpoint passes to the service, and the users
\* row the seed script inserts for it
TEMP_USER_ID == 3
DevUser == [id |-> TEMP_USER_ID, email |-> "dev@synthflow.local", name |-> "Dev User",
            avatar_url |-> None, oauth_id |-> "dev-oauth-001"]

\* the access tokens the two users were issued at time 0, sent as Bearer
Bearers == {create_access_token(u.id, u.email, 0, 0) : u \in TwoUsers}

Pages == {1, 2}
PerPages == {1, 2}

RECURSIVE NewestFirst(_)
\* ORDER BY created_at DESC: ids are handed out in creation order
NewestFirst(rows) ==
    IF rows = {} THEN <<>>
    ELSE LET newest == CHOOSE w \in rows : \A x \in rows : x.id <= w.id IN
         <<newest>> \o NewestFirst(rows \ {newest})

\* get_workflows: one page of the owner's workflows and their total count
get_workflows(wfs, owner_id, page, per_page) ==
    LET owned == {w \in wfs : w.owner_id = owner_id}
        ordered == NewestFirst(owned)
        offset == (page - 1) * per_page
        upto == IF offset + per_page < Len(ordered) THEN offset + per_page ELSE Len(ordered)
    IN [rows |-> SubSeq(ordered, offset + 1, upto), total |-> Cardinality(owned)]

\* what an endpoint answered to the request that carried bearer
ApiResponse(resp, bearer, rows) ==
    [op |-> resp.op, status |-> resp.status, msg |-> resp.msg, caller |-> resp.caller,
     wf |-> resp.wf, row |-> resp.row, data |-> resp.data, bearer |-> bearer, rows |-> rows]

ApiInit ==
    /\ clock = 0
    /\ users = TwoUsers \cup {DevUser}
    /\ tokens = {}
    /\ loggedOut = {}
    /\ workflows = {}
    /\ wfCreated = 0
    /\ wfUpdates = [i \in 1..MaxWorkflows |-> 0]
    /\ last = ApiResponse(WfResponse("none", 0, "", NoUser, 0, NoWorkflow), NoToken, <<>>)
    /\ NoneInFlight

\* POST /api/workflows
ApiCreateWorkflow ==
    /\ wfCreated < MaxWorkflows
    /\ \E bearer \in Bearers, data \in WorkflowCreates :
         LET workflow == create_workflow(wfCreated + 1, TEMP_USER_ID, data) IN
         /\ workflows' = workflows \cup {workflow}
         /\ wfCreated' = wfCreated + 1
         /\ last' = ApiResponse(WfResponse("create", 201, "ok", TEMP_USER_ID, workflow.id,
                                           workflow), bearer, <<>>)
    /\ UNCHANGED <<clock, users, tokens, loggedOut, wfUpdates, auxVars>>

\* GET /api/workflows
ApiListWorkflows ==
    /\ \E bearer \in Bearers, page \in Pages, per_page \in PerPages :
         LET g == get_workflows(workflows, TEMP_USER_ID, page, per_page) IN
         last' = ApiResponse(WfResponse("list", 200, "ok", TEMP_USER_ID, 0, NoWorkflow),
                             bearer, g.rows)
    /\ UNCHANGED <<clock, users, tokens, loggedOut, wfVars, auxVars>>

\* GET /api/workflows/{workflow_id}
ApiGetWorkflow ==
    /\ \E bearer \in Bearers, workflow_id \in WorkflowIds :
         LET g == get_workflow_by_id(workflows, workflow_id, TEMP_USER_ID) IN
         last' = ApiResponse(WfResponse("get", g.status, g.msg, TEMP_USER_ID, workflow_id,
                                        g.row), bearer, <<>>)
    /\ UNCHANGED <<clock, users, tokens, loggedOut, wfVars, auxVars>>

\* PUT /api/workflows/{workflow_id}
ApiUpdateWorkflow ==
    /\ \E bearer \in Bearers, workflow_id \in WorkflowIds, data \in WorkflowUpdates :
         LET out == update_workflow(workflows, workflow_id, TEMP_USER_ID, data) IN
         /\ \A w \in workflows : w.id = workflow_id => w.version < MaxVersion
         /\ workflows' = out.workflows
         /\ last' = ApiResponse(out.resp, bearer, <<>>)
         /\ wfUpdates' = IF out.resp.status = 200
                         THEN [wfUpdates EXCEPT ![workflow_id] = @ + 1] ELSE wfUpdates
    /\ UNCHANGED <<clock, users, tokens, loggedOut, wfCreated, auxVars>>

\* DELETE /api/workflows/{workflow_id}
ApiDeleteWorkflow ==
    /\ \E bearer \in Bearers, workflow_id \in WorkflowIds :
         LET out == delete_workflow(workflows, workflow_id, TEMP_USER_ID) IN
         /\ workflows' = out.workflows
         /\ last' = ApiResponse(out.resp, bearer, <<>>)
    /\ UNCHANGED <<clock, users, tokens, loggedOut, wfCreated, wfUpdates, auxVars>>

ApiNext ==
    \/ ApiCreateWorkflow
    \/ ApiListWorkflows
    \/ ApiGetWorkflow
    \/ ApiUpdateWorkflow
    \/ ApiDeleteWorkflow

ApiSpec == ApiInit /\ [][ApiNext]_vars

\* the user a request's Bearer token authenticates
BearerUser(bearer) == get_current_user(users, bearer, clock).user

\* C11: every workflow endpoint passes the service the id of the user its
\* Bearer token authenticates, so a created workflow is owned by the caller and
\* a get, update or delete of another user's workflow does not succeed.
C11_OwnerIsBearerIdentity ==
    last.op \in {"create", "list", "get", "update", "delete"} =>
        /\ last.caller = BearerUser(last.bearer).id
        /\ last.op = "create" => last.row.owner_id = BearerUser(last.bearer).id
        /\ (last.op \in {"get", "update"} /\ last.status = 200) =>
              last.row.owner_id = BearerUser(last.bearer).id

\* the email a tokeninfo response carries is reported verified
ReportedVerified(c) == c.email_verified \in {"true", "\"true\""}

\* C14: a login whose tokeninfo response is no success, is for another
\* audience or does not report the email verified is answered 400, leaves the
\* users and refresh_tokens tables as they were and returns no token; the
\* first of the three checks that fails, in that order, names the error.
C14_FailedVerificationRejected ==
    [][last'.op = "login" =>
          LET c == last'.cred IN
          (c.status # 200 \/ c.aud # GOOGLE_CLIENT_ID \/ ~ReportedVerified(c)) =>
              /\ last'.status = 400
              /\ users' = users
              /\ tokens' = tokens
              /\ last'.access = NoToken /\ last'.refresh = NoToken
              /\ last'.msg = IF c.status # 200 THEN "Invalid Google credential"
                             ELSE IF c.aud # GOOGLE_CLIENT_ID
                             THEN "Google token was not issued for this application"
                             ELSE "Google email not verified"]_vars

\* the first of the four checks of refresh that token string t fails now, 0 if none
FirstFailing(t) ==
    IF ~(t.sig /\ ~(t.exp < SecOf(clock)) /\ t.typ = "refresh" /\ t.sub # NoUser) THEN 1
    ELSE IF ~\E r \in tokens : r.token = t /\ ~r.is_revoked THEN 2
    ELSE IF \E r \in tokens : r.token = t /\ ~r.is_revoked /\ r.expires_at < clock THEN 3
    ELSE IF ~\E u \in users : u.id = t.sub THEN 4
    ELSE 0

RefreshMsgs ==
    <<"Invalid or expired refresh token", "Refresh token not found or has been revoked",
      "Refresh token has expired", "User not found">>

\* C15: refresh_access_token reports the first failing check of (1) decodes as
\* an unexpired refresh token, (2) an unrevoked record with that string is
\* stored, (3) its stored expiry is not earlier than now, (4) the user exists;
\* a decodable token that is revoked and past its stored expiry is reported as
\* not found or revoked; an access token is issued only when all four pass.
C15_FirstFailingCheckReported ==
    \A t \in Presentable \cup loggedOut :
        LET resp == RefreshNow(t)
            n == FirstFailing(t)
        IN /\ n # 0 => resp.status = 400 /\ resp.msg = RefreshMsgs[n] /\ resp.access = NoToken
           /\ n = 0 => resp.status = 200 /\ resp.access # NoToken
           /\ (last.op = "refresh" /\ last.arg = t) => last = resp

\* a refresh of a token that still decodes, is revoked and is past its stored
\* expiry was answered "not found or has been revoked"
C15_Witness ==
    /\ last.op = "refresh"
    /\ last.msg = RefreshMsgs[2]
    /\ verify_refresh_token(last.arg, clock)
    /\ \E r \in tokens : r.token = last.arg /\ r.is_revoked /\ r.expires_at < clock

\* the stored expiry of every persisted refresh token is not earlier than the
\* instant of the expiry encoded in the token
StoredNotEarlierThanEncoded ==
    \A r \in tokens : r.expires_at >= r.token.exp * TicksPerSec

\* C18 as stated: the stored expiry is never earlier than the encoded one, a
\* token whose stored expiry has passed no longer decodes, and refresh never
\* answers "Refresh token has expired" for a token a login stored.
C18_ExpiredOutcomeUnreachable ==
    /\ StoredNotEarlierThanEncoded
    /\ \A r \in tokens :
          /\ StoredExpiryPassed(r) => ~verify_refresh_token(r.token, clock)
          /\ RefreshNow(r.token).msg # RefreshMsgs[3]

\* C18: the stored expiry is never earlier than the encoded one; once the
\* stored expiry has passed, the clock is in the second of the encoded exp or
\* later; the token still decodes during that second, so refresh can answer
\* "Refresh token has expired" then and only then, and from the next second on
\* the token fails decoding.
C18_ExpiredOnlyInExpirySecond ==
    /\ StoredNotEarlierThanEncoded
    /\ \A r \in tokens :
          /\ StoredExpiryPassed(r) => SecOf(clock) >= r.token.exp
          /\ (StoredExpiryPassed(r) /\ SecOf(clock) > r.token.exp) =>
                RefreshNow(r.token).msg = RefreshMsgs[1]
          /\ RefreshNow(r.token).msg = RefreshMsgs[3] => SecOf(clock) = r.token.exp
    /\ last.msg = RefreshMsgs[3] => SecOf(clock) = last.arg.exp

\* a refresh of a token a login stored was answered "Refresh token has expired"
C18_Witness ==
    /\ last.op = "refresh"
    /\ last.msg = RefreshMsgs[3]
    /\ \E r \in tokens : r.token = last.arg /\ ~r.is_revoked /\ StoredExpiryPassed(r)

\* ------------------------------------------------------------- a client's session
\* one tokeninfo response of one subject: the clients of this specification keep
\* the tokens they are handed and present them again later
SessCredentials ==
    {c \in GoodCredentials :
        /\ c.name = Absent
        /\ c.sub = "g-1" /\ c.email = "a@x.com"}

\* the tokens a response hands out
Handed(resp) == {resp.access, resp.refresh} \ {NoToken}

\* POST /api/auth/google, the client keeping both tokens
SessLogin ==
    /\ clock <= MaxLoginTick
    /\ Cardinality(tokens) < MaxTokens
    /\ \E credential \in SessCredentials, k \in 0..NumReads :
         LET rd == Reads(clock, k)
             out == authenticate_with_google(users, tokens, credential, rd)
         IN /\ users' = out.users
            /\ tokens' = out.tokens
            /\ last' = out.resp
            /\ held' = held \cup Handed(out.resp)
            /\ clock' = IF verify_google_token(credential) = "ok" THEN rd[NumReads] ELSE clock
    /\ UNCHANGED <<loggedOut, wfVars, procs, isolation>>

\* POST /api/auth/refresh with a token the client holds, the client keeping
\* the access token it is handed
SessRefresh ==
    /\ \E t \in held \cup {GarbageToken} :
         LET out == refresh_access_token(users, tokens, t, clock) IN
         /\ users' = out.users
         /\ tokens' = out.tokens
         /\ last' = out.resp
         /\ held' = held \cup Handed(out.resp)
    /\ UNCHANGED <<clock, loggedOut, wfVars, procs, isolation>>

\* POST /api/auth/logout with a token the client holds
SessLogout ==
    /\ \E t \in held \cup {GarbageToken} :
         LET out == revoke_refresh_token(tokens, t) IN
         /\ tokens' = out.tokens
         /\ last' = out.resp
         /\ loggedOut' = IF out.resp.status = 204 /\ \E r \in tokens : r.token = t
                         THEN loggedOut \cup {t} ELSE loggedOut
    /\ UNCHANGED <<clock, users, wfVars, auxVars>>

\* GET /api/auth/me with a token the client holds as Bearer
Me ==
    /\ \E t \in held \cup {GarbageToken} :
         LET g == get_current_user(users, t, clock) IN
         last' = [Response("me", g.status, g.msg) EXCEPT !.arg = t, !.user = g.user.id]
    /\ UNCHANGED <<clock, users, tokens, loggedOut, wfVars, auxVars>>

SessNext == Tick \/ SessLogin \/ SessRefresh \/ SessLogout \/ Me

SessSpec == Init /\ [][SessNext]_vars

\* a stored record, unrevoked and unexpired, whose token string is t
RowOf(t) == [user_id |-> t.sub, token |-> t, is_revoked |-> FALSE, expires_at |-> MaxTime]

\* C12: at every time, a token issued by create_refresh_token fails
\* verify_access_token and is answered 401 by get_current_user, and a token
\* issued by create_access_token fails verify_refresh_token and is refused by
\* refresh_access_token as invalid, also when the store holds a live record
\* with that very string.
C12_TokenTypesNotInterchangeable ==
    \A t \in held, now \in 0..MaxTime :
        /\ t.typ = "refresh" =>
              /\ ~verify_access_token(t, now)
              /\ get_current_user(users, t, now).status = 401
        /\ t.typ = "access" =>
              /\ ~verify_refresh_token(t, now)
              /\ \A store \in {tokens, tokens \cup {RowOf(t)}} :
                    LET resp == refresh_access_token(users, store, t, now).resp IN
                    resp.status = 400 /\ resp.msg = "Invalid or expired refresh token"

\* GET /me with a refresh token that refresh would accept was answered 401,
\* and the client holds a valid access token that refresh refuses
C12_Witness ==
    /\ last.op = "me"
    /\ last.arg.typ = "refresh"
    /\ last.status = 401
    /\ RefreshNow(last.arg).status = 200
    /\ \E a \in held : /\ a.typ = "access"
                       /\ verify_access_token(a, clock)
                       /\ RefreshNow(a).status = 400

\* the access token a successful login or refresh step hands out carries the
\* user's id and email, type access and exp = a clock reading of the step, in
\* whole seconds, + the access TTL
IssuedAccessClaims ==
    (last'.op \in {"login", "refresh"} /\ last'.status = 200) =>
        /\ last'.access.typ = "access"
        /\ \E u \in users' : /\ u.id = last'.user
                             /\ last'.access.sub = u.id
                             /\ last'.access.email = u.email
        /\ \E t \in clock..clock' : last'.access.exp = SecOf(t) + AccessTtl

\* C13 as stated: the access token just issued verifies exactly at the times
\* before its encoded expiry
C13_ValidIffBeforeExpiry ==
    [][/\ IssuedAccessClaims
       /\ (last'.op \in {"login", "refresh"} /\ last'.status = 200) =>
             \A now \in clock'..(MaxTime + TicksPerSec) :
                 verify_access_token(last'.access, now)
                     <=> now < last'.access.exp * TicksPerSec]_vars

\* C13: verify_access_token of the token create_access_token issued returns the
\* sub, email and type access it was issued with, and succeeds exactly while
\* the current time in whole seconds is not later than the encoded exp: the
\* token is still accepted during the second of its expiry.
C13_ValidThroughExpirySecond ==
    [][/\ IssuedAccessClaims
       /\ (last'.op \in {"login", "refresh"} /\ last'.status = 200) =>
             \A now \in clock'..(MaxTime + TicksPerSec) :
                 verify_access_token(last'.access, now) <=> SecOf(now) <= last'.access.exp]_vars

\* GET /me accepted an access token after the instant of its encoded expiry
C13_Witness ==
    /\ last.op = "me"
    /\ last.status = 200
    /\ last.arg.typ = "access"
    /\ clock > last.arg.exp * TicksPerSec
    /\ SecOf(clock) = last.arg.exp

\* C19: whatever was revoked, get_current_user accepts an access token that
\* login or refresh issued, and returns its user, exactly until the token's
\* own exp has passed; the state of the refresh-token store does not matter.
C19_AccessOutlivesRevoke ==
    \A a \in held :
        (a.typ = "access" /\ \E u \in users : u.id = a.sub) =>
            LET g == get_current_user(users, a, clock) IN
            /\ g.status = 200 <=> SecOf(clock) <= a.exp
            /\ g.status = 200 => g.user.id = a.sub

\* GET /me accepted an access token although every refresh token of its user,
\* among them one handed out before the access token was, has been revoked by
\* a logout
C19_Witness ==
    /\ last.op = "me"
    /\ last.status = 200
    /\ last.arg.typ = "access"
    /\ \A r \in tokens : r.user_id = last.arg.sub => r.is_revoked
    /\ \E r \in tokens : /\ r.user_id = last.arg.sub
                         /\ r.token \in loggedOut
                         /\ r.token.iat <= last.arg.iat

\* ------------------------------------------------------------- requests in flight
\* the isolation level the engine is created with: the store's default, or the
\* stricter level that fails a write to a row another transaction has changed
IsolationLevels == {"read_committed", "serializable"}

\* another transaction has flushed a write to workflow_id and not yet committed
RowLocked(p, workflow_id) ==
    \E q \in Procs \ {p} : procs[q].pc = "flushed" /\ procs[q].workflow_id = workflow_id

\* the UPDATE the flush emits for the loaded object row: the columns whose
\* value the handler changed, version among them, written over the row as it
\* is stored now
FlushedRow(current, row, data) ==
    [current EXCEPT
        !.name = IF data.name \notin {Unset, row.name} THEN data.name ELSE @,
        !.description = IF data.description \notin {Unset, row.description}
                        THEN data.description ELSE @,
        !.is_active = IF data.is_active \notin {Unset, row.is_active} THEN data.is_active ELSE @,
        !.version = BumpedVersion(row, data)]

\* the patches sent by the concurrent requests
ConcUpdates == {NoPatch, [NoPatch EXCEPT !.name = "Y"]}

UpdInit ==
    /\ clock = 0
    /\ users = TwoUsers
    /\ tokens = {}
    /\ loggedOut = {}
    /\ workflows = {}
    /\ wfCreated = 0
    /\ wfUpdates = [i \in 1..MaxWorkflows |-> 0]
    /\ last = WfResponse("none", 0, "", NoUser, 0, NoWorkflow)
    /\ held = {}
    /\ procs = [p \in Procs |-> Idle]
    /\ isolation \in IsolationLevels

\* update_workflow up to the return of get_workflow_by_id: the row is loaded
\* into the request's session, or the request is answered 404 / 403
UpdLoad(p) ==
    /\ procs[p] = Idle
    /\ \E owner_id \in Owners, workflow_id \in WorkflowIds, data \in ConcUpdates :
         LET g == get_workflow_by_id(workflows, workflow_id, owner_id) IN
         /\ \A w \in workflows : w.id = workflow_id => w.version < MaxVersion
         /\ IF g.status # 200
            THEN /\ last' = [WfResponse("update", g.status, g.msg, owner_id, workflow_id,
                                        NoWorkflow) EXCEPT !.data = data]
                 /\ procs' = procs
            ELSE /\ last' = WfResponse("none", 0, "", NoUser, 0, NoWorkflow)
                 /\ procs' = [procs EXCEPT ![p] =
                                 [pc |-> "loaded", owner_id |-> owner_id,
                                  workflow_id |-> workflow_id, data |-> data, row |-> g.row,
                                  pending |-> NoWorkflow]]
    /\ UNCHANGED <<clock, users, tokens, loggedOut, wfVars, held, isolation>>

\* the setattr loop, version += 1 and db.flush(): the UPDATE waits for a row
\* lock another transaction holds; it fails when the row is gone, or, at the
\* serializable level, has been changed since this request loaded it
UpdFlush(p) ==
    /\ procs[p].pc = "loaded"
    /\ ~RowLocked(p, procs[p].workflow_id)
    /\ LET me == procs[p]
           stored == {w \in workflows : w.id = me.workflow_id}
           failed == [WfResponse("update", 500, "An unexpected error occurred", me.owner_id,
                                 me.workflow_id, NoWorkflow) EXCEPT !.data = me.data]
       IN IF stored = {} \/ (isolation = "serializable" /\ me.row \notin stored)
          THEN /\ last' = failed
               /\ procs' = [procs EXCEPT ![p] = Idle]
          ELSE /\ last' = WfResponse("none", 0, "", NoUser, 0, NoWorkflow)
               /\ procs' = [procs EXCEPT ![p] =
                              [me EXCEPT !.pc = "flushed",
                                         !.pending = FlushedRow(CHOOSE w \in stored : TRUE,
                                                                me.row, me.data)]]
    /\ UNCHANGED <<clock, users, tokens, loggedOut, wfVars, held, isolation>>

\* db.refresh(workflow), the return of the handler and the commit of get_db
UpdReturn(p) ==
    /\ procs[p].pc = "flushed"
    /\ LET me == procs[p] IN
       /\ workflows' = {w \in workflows : w.id # me.workflow_id} \cup {me.pending}
       /\ wfUpdates' = [wfUpdates EXCEPT ![me.workflow_id] = @ + 1]
       /\ last' = [WfResponse("update", 200, "ok", me.owner_id, me.workflow_id, me.pending)
                      EXCEPT !.data = me.data]
    /\ procs' = [procs EXCEPT ![p] = Idle]
    /\ UNCHANGED <<clock, users, tokens, loggedOut, wfCreated, held, isolation>>

UpdNext ==
    \/ CreateWorkflow
    \/ \E p \in Procs : UpdLoad(p)
    \/ \E p \in Procs : UpdFlush(p)
    \/ \E p \in Procs : UpdReturn(p)

UpdSpec == UpdInit /\ [][UpdNext]_vars

\* C16: when k update_workflow calls on a workflow have completed
\* successfully, whatever their interleaving, the stored version is the
\* initial version + k, and the k-th successful update returned that version,
\* so no two successful updates return the same one.
C16_VersionCountsUpdates ==
    /\ \A w \in workflows : w.version = 1 + wfUpdates[w.id]
    /\ (last.op = "update" /\ last.status = 200) =>
          last.row.version = 1 + wfUpdates[last.wf]

\* ------------------------------------------------------------- refresh and logout in flight
\* steps 1 to 3 of refresh_access_token: the response of the check that
\* fails, or ok and the record the lookup loaded
refresh_lookup(toks, refresh_token_str, now) ==
    LET R(ok, msg) == [ok |-> ok,
                       resp |-> [Response("refresh", 400, msg) EXCEPT !.arg = refresh_token_str],
                       rows |-> {}]
        stored == StoredUnrevoked(toks, refresh_token_str)
    IN
    IF ~verify_refresh_token(refresh_token_str, now)
    THEN R(FALSE, "Invalid or expired refresh token")
    ELSE IF Cardinality(stored) > 1
    THEN [ok |-> FALSE, resp |-> [Unexpected("refresh") EXCEPT !.arg = refresh_token_str],
          rows |-> {}]
    ELSE IF stored = {}
    THEN R(FALSE, "Refresh token not found or has been revoked")
    ELSE IF (CHOOSE r \in stored : TRUE).expires_at < now
    THEN R(FALSE, "Refresh token has expired")
    ELSE [R(TRUE, "") EXCEPT !.rows = stored]

\* steps 4 and 5 that look the record up once more and want it unrevoked
refresh_issue_rechecking(us, refresh_token_str, now) ==
    LET found == {u \in us : u.id = refresh_token_str.sub} IN
    IF found = {} \/ StoredUnrevoked(tokens, refresh_token_str) = {}
    THEN [Response("refresh", 400, "Refresh token not found or has been revoked")
             EXCEPT !.arg = refresh_token_str]
    ELSE LET user == CHOOSE u \in found : TRUE IN
         [Response("refresh", 200, "ok") EXCEPT
             !.arg = refresh_token_str, !.user = user.id,
             !.access = create_access_token(user.id, user.email, now, now)]

\* steps 4 and 5 of refresh_access_token: the response of the request
refresh_issue(us, refresh_token_str, now) ==
    LET found == {u \in us : u.id = refresh_token_str.sub} IN
    IF found = {}
    THEN [Response("refresh", 400, "User not found") EXCEPT !.arg = refresh_token_str]
    ELSE LET user == CHOOSE u \in found : TRUE IN
         [Response("refresh", 200, "ok") EXCEPT
             !.arg = refresh_token_str, !.user = user.id,
             !.access = create_access_token(user.id, user.email, now, now)]

\* the refresh tokens the clients hold
HeldRefresh == {t \in held : t.typ = "refresh"}

RaceInit ==
    /\ clock = 0
    /\ users = {}
    /\ tokens = {}
    /\ loggedOut = {}
    /\ workflows = {}
    /\ wfCreated = 0
    /\ wfUpdates = [i \in 1..MaxWorkflows |-> 0]
    /\ last = Response("none", 0, "")
    /\ held = {}
    /\ procs = [p \in Procs |-> Idle]
    /\ isolation \in IsolationLevels

\* refresh_access_token up to the expiry check on the record it loaded
RefLookup(p) ==
    /\ procs[p] = Idle
    /\ \E t \in HeldRefresh :
         LET l == refresh_lookup(tokens, t, clock) IN
         IF l.ok
         THEN /\ procs' = [procs EXCEPT ![p] =
                             [pc |-> "looked_up", arg |-> t, rows |-> l.rows]]
              /\ last' = Response("none", 0, "")
         ELSE /\ procs' = procs
              /\ last' = l.resp
    /\ UNCHANGED <<clock, users, tokens, loggedOut, wfVars, held, isolation>>

\* the user lookup, the new access token and the return of the handler
RefReturn(p) ==
    /\ procs[p].pc = "looked_up"
    /\ last' = refresh_issue(users, procs[p].arg, clock)
    /\ held' = held \cup Handed(last')
    /\ procs' = [procs EXCEPT ![p] = Idle]
    /\ UNCHANGED <<clock, users, tokens, loggedOut, wfVars, isolation>>

\* revoke_refresh_token up to the return of its lookup
RevLookup(p) ==
    /\ procs[p] = Idle
    /\ \E t \in HeldRefresh :
         LET found == {r \in tokens : r.token = t} IN
         IF Cardinality(found) = 1
         THEN /\ procs' = [procs EXCEPT ![p] = [pc |-> "found", arg |-> t, rows |-> found]]
              /\ last' = Response("none", 0, "")
         ELSE /\ procs' = procs
              /\ last' = revoke_refresh_token(tokens, t).resp
    /\ UNCHANGED <<clock, users, tokens, loggedOut, wfVars, held, isolation>>

\* is_revoked = True, the flush and the commit of get_db: an object that is
\* revoked already is not written; at the serializable level the write fails
\* when the row has been changed since this request loaded it
RevCommit(p) ==
    /\ procs[p].pc = "found"
    /\ LET me == procs[p]
           stored == {r \in tokens : r.token = me.arg}
           written == RevokedRows(me.rows) # me.rows
       IN IF written /\ isolation = "serializable" /\ stored # me.rows
          THEN /\ last' = [Unexpected("logout") EXCEPT !.arg = me.arg]
               /\ UNCHANGED <<tokens, loggedOut>>
          ELSE /\ last' = [Response("logout", 204, "ok") EXCEPT !.arg = me.arg]
               /\ tokens' = IF written THEN (tokens \ stored) \cup RevokedRows(stored)
                            ELSE tokens
               /\ loggedOut' = loggedOut \cup {me.arg}
    /\ procs' = [procs EXCEPT ![p] = Idle]
    /\ UNCHANGED <<clock, users, wfVars, held, isolation>>

RaceNext ==
    \/ Tick
    \/ SessLogin
    \/ \E p \in Procs : RefLookup(p)
    \/ \E p \in Procs : RefReturn(p)
    \/ \E p \in Procs : RevLookup(p)
    \/ \E p \in Procs : RevCommit(p)

RaceSpec == RaceInit /\ [][RaceNext]_vars

\* C17: a refresh that has passed its lookup of the unrevoked record returns
\* a new access token whatever happens to the record before it returns: it
\* does not look at the revoked flag again, so a logout of the same token that
\* completes in between does not stop it. Run without interruption, the two
\* halves of refresh answer as refresh_access_token does.
C17_RefreshIgnoresLaterRevoke ==
    [][/\ \A p \in Procs :
             (procs[p].pc = "looked_up" /\ procs'[p] = Idle) =>
                 /\ last'.op = "refresh"
                 /\ last'.status = 200
                 /\ last'.arg = procs[p].arg
                 /\ last'.access # NoToken
                 /\ tokens' = tokens
       /\ \A t \in HeldRefresh :
             LET l == refresh_lookup(tokens, t, clock) IN
             RefreshNow(t) = IF l.ok THEN refresh_issue(users, t, clock) ELSE l.resp]_vars

\* a refresh returned a new access token for a token whose record a logout,
\* completed after the refresh's lookup, had already revoked
C17_Witness ==
    /\ last.op = "refresh"
    /\ last.status = 200
    /\ last.access # NoToken
    /\ last.arg \in loggedOut
    /\ \A r \in tokens : r.token = last.arg => r.is_revoked
    /\ RefreshNow(last.arg).msg = RevokedMsg

====
